---- MODULE Spec2Model ----
(***************************************************************************)
(* Model of the import parser of graphql-toolkit                           *)
(* (packages/core/src/import-parser/index.ts): the import-line grammar,    *)
(* the recursive traversal of the import graph with its processedFiles     *)
(* guard, the projection of each visited document and the cross-file merge *)
(* that precedes the call of completeDefinitionPool.                       *)
(*                                                                         *)
(* Representation.                                                         *)
(*  - A path is a sequence that ends with its extension: the canonical     *)
(*    path of a file is <<stem, extension>>, and the from string of an     *)
(*    import of that file is <<"./", stem, extension>>.                    *)
(*  - A selector is the sequence of its dot-separated parts, so that       *)
(*    i.split('.') is the selector itself: "Foo.x" is <<"Foo", "x">> and   *)
(*    the wildcard "*" is <<"*">>.                                         *)
(*  - A definition node is [kind, name, fields].  Which keys a graphql AST *)
(*    node carries is fixed by its kind: 'name' in d is HasName(d) and     *)
(*    'fields' in d is HasFields(d).  A field node is a token; FieldName   *)
(*    gives its name.value, so two tokens can be two fields of one name.   *)
(*  - Node objects are shared between allDefinitions and typeDefinitions   *)
(*    and are edited in place.  allDefinitions holds the nodes; a          *)
(*    projection holds references <<k, j>>: node j of allDefinitions[k].   *)
(***************************************************************************)
EXTENDS Integers, Sequences, FiniteSets, TLC

(***************************************************************************)
(* Generic sequence helpers (lodash / Array.prototype).                    *)
(***************************************************************************)
Range(s) == { s[i] : i \in 1..Len(s) }

Includes(s, x) == \E i \in 1..Len(s) : s[i] = x

RECURSIVE flatten(_)
flatten(ss) == IF ss = <<>> THEN <<>> ELSE Head(ss) \o flatten(Tail(ss))

\* f.name.value of a field node: "x'" is a field named x that differs from
\* the field "x" (in its type, say).  Reading name.value off the element
\* undefined gives undefined under lodash's property path.
FieldName(f) == IF f = "x'" THEN "x" ELSE f

\* _.uniqBy(fields, 'name.value'): the first field of each name is kept.
RECURSIVE uniqBy(_)
uniqBy(s) ==
  IF s = <<>> THEN <<>>
  ELSE LET init == uniqBy(SubSeq(s, 1, Len(s) - 1))
           last == s[Len(s)]
       IN  IF \E i \in 1..Len(init) : FieldName(init[i]) = FieldName(last)
           THEN init ELSE Append(init, last)

(***************************************************************************)
(* Definition nodes.                                                       *)
(***************************************************************************)
NoName == "<unnamed>"
Undefined == "<undefined>"

FieldKinds == { "ObjectTypeDefinition", "InterfaceTypeDefinition",
                "InputObjectTypeDefinition", "ObjectTypeExtension",
                "InterfaceTypeExtension", "InputObjectTypeExtension" }

\* The kinds whose nodes have no key 'name'.
UnnamedKinds == { "SchemaDefinition", "SchemaExtension" }

HasName(d) == d.kind \notin UnnamedKinds
HasFields(d) == d.kind \in FieldKinds

ObjectType(n, fs) == [kind |-> "ObjectTypeDefinition", name |-> n, fields |-> fs]
ScalarType(n) == [kind |-> "ScalarTypeDefinition", name |-> n, fields |-> <<>>]
SchemaBlock == [kind |-> "SchemaDefinition", name |-> NoName, fields |-> <<>>]

\* d.fields as JavaScript reads it: undefined when the node has no such key.
\* concat(undefined) appends the single element undefined.
FieldsForConcat(d) == IF HasFields(d) THEN d.fields ELSE <<Undefined>>

rootFields == <<"Query", "Mutation", "Subscription">>

(***************************************************************************)
(* compareNodes of @graphql-toolkit/common orders nodes by name.  Names    *)
(* are compared through their position in NameOrder; Array.prototype.sort  *)
(* moves undefined elements to the end.                                    *)
(***************************************************************************)
NameOrder == <<"a", "b", "foo", "x", "y", "z", Undefined>>

Rank(f) == CHOOSE i \in 1..Len(NameOrder) : NameOrder[i] = FieldName(f)

RECURSIVE SortFields(_)
SortFields(s) ==
  IF s = <<>> THEN <<>>
  ELSE LET m == CHOOSE i \in 1..Len(s) :
                  /\ \A j \in 1..Len(s) : Rank(s[i]) <= Rank(s[j])
                  /\ \A j \in 1..(i - 1) : Rank(s[j]) > Rank(s[i])
       IN  <<s[m]>> \o SortFields(SubSeq(s, 1, m - 1) \o SubSeq(s, m + 1, Len(s)))

(***************************************************************************)
(* Import-line grammar.  A line of rawSDL is [form, sels, from]:           *)
(*   "text"      not an import comment (no '# import ' / '#import ' prefix)*)
(*   "from"      matches IMPORT_FROM_REGEX:  import <sels> from '<from>'   *)
(*   "default"   matches IMPORT_DEFAULT_REGEX:  import '<from>'            *)
(*   "malformed" an import comment that matches neither                    *)
(***************************************************************************)
Wildcard == <<"*">>
EmptyPath == <<"", "">>

Failure == [ok |-> FALSE]
Success(v) == [ok |-> TRUE, value |-> v]

parseImportLine(l) ==
  IF l.form = "from"
  THEN IF l.from # EmptyPath
       THEN Success([imports |-> IF l.sels = <<Wildcard>> THEN <<Wildcard>> ELSE l.sels,
                     from |-> l.from])
       ELSE Failure
  ELSE IF l.form = "default"
       THEN Success([imports |-> <<Wildcard>>, from |-> l.from])
       ELSE Failure

IsImportComment(l) == l.form # "text"

\* parseSDL: the import comments of the text, parsed in source order; one
\* line that does not parse makes the whole call throw.
parseSDL(rawSDL) ==
  LET lines == SelectSeq(rawSDL, IsImportComment)
      parsed == [i \in 1..Len(lines) |-> parseImportLine(lines[i])]
  IN  IF \E i \in 1..Len(lines) : ~parsed[i].ok
      THEN Failure
      ELSE Success([i \in 1..Len(lines) |-> parsed[i].value])

(***************************************************************************)
(* Path resolution.                                                        *)
(***************************************************************************)
isGraphQLFile(f) == f[Len(f)] \in { "graphql", "graphqls", "gql", "gqls" }

\* env: [hasFs, realpath, modules].  env.realpath[from] is the outcome of
\* fs.realpath(path.join(dirName, importFrom)): [code |-> "OK", data |-> p],
\* or an error code.  env.modules[from] is what resolve-from returns, or
\* NotFound when it throws.  All files of a model run share one directory.
NotFound == <<"", "MODULE_NOT_FOUND">>

resolveModuleFilePath(filePath, importFrom, env) ==
  IF env.hasFs /\ isGraphQLFile(filePath) /\ isGraphQLFile(importFrom)
  THEN LET r == env.realpath[importFrom]
       IN  IF r.code = "OK" THEN Success(r.data)
           ELSE IF r.code = "ENOENT"
                THEN IF env.modules[importFrom] = NotFound
                     THEN Failure
                     ELSE Success(env.modules[importFrom])
                ELSE Success(importFrom)
  ELSE Success(importFrom)

(***************************************************************************)
(* Definition Projector.                                                   *)
(*                                                                         *)
(* filterImportedDefinitions(imports, typeDefinitions, allDefinitions,     *)
(* sort) returns [result, definitions]: result lists the positions (in     *)
(* typeDefinitions) of the nodes the code returns, and definitions is      *)
(* typeDefinitions after the in-place edit of the field lists (lines       *)
(* 257-261).  allDefinitions already ends with the current document.       *)
(***************************************************************************)
Indices(s) == [j \in 1..Len(s) |-> j]

\* Lines 240-243: the names of the named definitions of the earlier
\* documents, the root type names left out (the keys of the keyBy).
previousTypeDefinitions(allDefinitions) ==
  { d.name : d \in { e \in Range(flatten(SubSeq(allDefinitions, 1, Len(allDefinitions) - 1))) :
                       HasName(e) /\ ~Includes(rootFields, e.name) } }

\* keyBy (lines 240-243) builds a plain object, and line 244 reads
\* previousTypeDefinitions[name] for its truthiness: a name that is not a
\* key of the object is looked up along the prototype chain, where the
\* members of Object.prototype are found.
ObjectPrototypeKeys ==
  { "constructor", "hasOwnProperty", "isPrototypeOf", "propertyIsEnumerable",
    "toLocaleString", "toString", "valueOf", "__proto__",
    "__defineGetter__", "__defineSetter__", "__lookupGetter__", "__lookupSetter__" }

\* Line 244: previousTypeDefinitions[typeDef.name.value] is truthy.
SeenBefore(previous, name) == name \in previous \/ name \in ObjectPrototypeKeys

\* Line 254: the field names requested for rootType.
RequestedFields(imports, rootType) ==
  LET fieldImports == SelectSeq(imports, LAMBDA i : Len(i) > 1 /\ i[1] = rootType)
  IN  [k \in 1..Len(fieldImports) |-> fieldImports[k][2]]

\* The field lists are left as they are.
ProjectFieldsKeepingAll(imports, typeDefinitions, j, sort) == typeDefinitions[j]

\* The loop of line 253 run over every imported type instead of the types
\* that have field imports: a type imported by its bare name keeps no field.
ProjectFieldsOfEveryImport(imports, typeDefinitions, j, sort) ==
  LET d == typeDefinitions[j]
      fields == RequestedFields(imports, d.name)
      isFound == /\ HasName(d)
                 /\ \A k \in 1..(j - 1) :
                      ~(HasName(typeDefinitions[k]) /\ typeDefinitions[k].name = d.name)
      kept == SelectSeq(d.fields, LAMBDA f : Includes(fields, FieldName(f)) \/ Includes(fields, "*"))
  IN  IF isFound /\ HasFields(d) /\ ~Includes(fields, "*")
      THEN [d EXCEPT !.fields = IF sort THEN SortFields(kept) ELSE kept]
      ELSE d

\* Lines 253-262 for one node: position j of typeDefinitions.
ProjectFields(imports, typeDefinitions, j, sort) ==
  LET d == typeDefinitions[j]
      fields == RequestedFields(imports, d.name)
      isFound == /\ HasName(d)
                 /\ \A k \in 1..(j - 1) :
                      ~(HasName(typeDefinitions[k]) /\ typeDefinitions[k].name = d.name)
      kept == SelectSeq(d.fields, LAMBDA f : Includes(fields, FieldName(f)) \/ Includes(fields, "*"))
  IN  IF isFound /\ fields # <<>> /\ HasFields(d) /\ ~Includes(fields, "*")
      THEN [d EXCEPT !.fields = IF sort THEN SortFields(kept) ELSE kept]
      ELSE d

filterImportedDefinitions(imports, typeDefinitions, allDefinitions, sort) ==
  IF Includes(imports, Wildcard)
  THEN IF Len(imports) = 1 /\ imports[1] = Wildcard /\ Len(allDefinitions) > 1
       THEN LET previous == previousTypeDefinitions(allDefinitions)
            IN  [result |-> SelectSeq(Indices(typeDefinitions),
                              LAMBDA j : /\ typeDefinitions[j].kind = "ObjectTypeDefinition"
                                         /\ SeenBefore(previous, typeDefinitions[j].name)),
                 definitions |-> typeDefinitions]
       ELSE [result |-> Indices(typeDefinitions), definitions |-> typeDefinitions]
  ELSE LET importedTypes == [i \in 1..Len(imports) |-> imports[i][1]]
       IN  [result |-> SelectSeq(Indices(typeDefinitions),
                         LAMBDA j : /\ HasName(typeDefinitions[j])
                                    /\ Includes(importedTypes, typeDefinitions[j].name)),
            definitions |-> [j \in 1..Len(typeDefinitions) |->
                               ProjectFields(imports, typeDefinitions, j, sort)]]

(***************************************************************************)
(* Cross-File Merger: lines 92-115 of processImportSyntax.                 *)
(* References <<k, j>> stand for the node objects; defs is allDefinitions, *)
(* where the nodes live.                                                   *)
(***************************************************************************)
Node(defs, ref) == defs[ref[1]][ref[2]]

\* The other documents ahead of the entry document.
FirstSetOthersFirst(typeDefinitions) ==
  flatten(Tail(typeDefinitions)) \o typeDefinitions[1] \o flatten(typeDefinitions)

\* Lines 92-96.
FirstSet(typeDefinitions) ==
  flatten(typeDefinitions) \o typeDefinitions[1] \o flatten(Tail(typeDefinitions))

MergeStart(defs) ==
  [processedTypeNames |-> <<>>, mergedFirstTypes |-> <<>>, defs |-> defs]

\* The union without uniqBy.
MergedFieldsWithDuplicates(existing, type) == existing.fields \o FieldsForConcat(type)

\* Line 108: existingType.fields after the union with type.fields.
MergedFields(existing, type) == uniqBy(existing.fields \o FieldsForConcat(type))

\* Lines 100-114: one iteration of the loop, for the node behind ref.
MergeStep(st, ref, sort) ==
  LET type == Node(st.defs, ref)
  IN  IF ~HasName(type) THEN st
      ELSE IF ~Includes(st.processedTypeNames, type.name)
      THEN [st EXCEPT !.processedTypeNames = Append(@, type.name),
                      !.mergedFirstTypes = Append(@, ref)]
      ELSE LET e == CHOOSE i \in 1..Len(st.mergedFirstTypes) :
                      /\ Node(st.defs, st.mergedFirstTypes[i]).name = type.name
                      /\ \A h \in 1..(i - 1) :
                           Node(st.defs, st.mergedFirstTypes[h]).name # type.name
               eref == st.mergedFirstTypes[e]
               existingType == Node(st.defs, eref)
               merged == MergedFields(existingType, type)
           IN  IF HasFields(existingType)
               THEN [st EXCEPT !.defs[eref[1]][eref[2]].fields =
                                  IF sort THEN SortFields(merged) ELSE merged]
               ELSE st

RECURSIVE MergeWalk(_, _, _)
MergeWalk(st, firstSet, sort) ==
  IF firstSet = <<>> THEN st
  ELSE MergeWalk(MergeStep(st, Head(firstSet), sort), Tail(firstSet), sort)

(***************************************************************************)
(* The files of a run.                                                     *)
(***************************************************************************)
A == <<"a", "graphql">>
B == <<"b", "graphql">>
C == <<"c", "graphql">>
Broken == <<"broken", "graphql">>
Missing == <<"missing", "graphql">>
Locked == <<"locked", "graphql">>

Paths == { A, B, C, Broken, Missing, Locked }

\* The from string of an import of the file p, relative to the directory of
\* the importing file.
Rel(p) == <<"./">> \o p

\* Bare from strings, which resolve-from looks up in node_modules: Installed
\* has a schema file extension and is found there as InstalledModule; Pkg
\* has no schema file extension.
Installed == <<"installed", "graphql">>
InstalledModule == <<"node_modules/installed", "graphql">>
Pkg == <<"pkg/schema", "js">>

\* The from strings fs.realpath and resolve-from are asked about.
FromStrings == { Rel(p) : p \in Paths } \cup { Installed }

ImportFrom(sels, from) == [form |-> "from", sels |-> sels, from |-> from]
ImportDefault(from) == [form |-> "default", sels |-> <<>>, from |-> from]
Malformed == [form |-> "malformed", sels |-> <<>>, from |-> EmptyPath]
Text == [form |-> "text", sels |-> <<>>, from |-> EmptyPath]

Source(location, definitions, rawSDL) ==
  [location |-> location, definitions |-> definitions, rawSDL |-> rawSDL]

\* The files of a run carry at most MaxEdges import comments between them.
MaxEdges == 4

EntryImports ==
  { <<>>,
    <<ImportFrom(<<Wildcard>>, Rel(B))>>,
    <<Text, ImportFrom(<<<<"Foo">>>>, Rel(B))>>,
    <<ImportFrom(<<<<"Foo", "x">>>>, Rel(B))>>,
    <<ImportFrom(<<<<"Foo", "*">>>>, Rel(B))>>,
    <<ImportDefault(Rel(B))>>,
    <<ImportFrom(<<Wildcard>>, Rel(A))>>,
    <<Malformed>>,
    <<ImportFrom(<<Wildcard>>, Rel(Missing))>>,
    <<ImportFrom(<<Wildcard>>, Rel(Locked))>>,
    <<ImportFrom(<<Wildcard>>, Installed)>>,
    <<ImportFrom(<<Wildcard>>, Pkg)>>,
    <<ImportFrom(<<Wildcard, <<"Foo">>>>, Rel(B))>>,
    <<ImportFrom(<<Wildcard>>, Rel(B)), ImportFrom(<<Wildcard>>, Rel(C))>>,
    <<ImportFrom(<<<<"Foo">>, <<"Bar">>>>, Rel(B)), ImportFrom(<<<<"Foo">>>>, Rel(C))>>,
    <<ImportFrom(<<<<"Foo">>>>, Rel(B)), ImportFrom(<<<<"Foo">>>>, Rel(B))>>,
    <<ImportFrom(<<<<"Foo">>>>, Rel(B)), ImportFrom(<<<<"Foo">>>>, Rel(Broken))>>,
    <<ImportFrom(<<<<"Foo">>>>, Rel(B)), ImportFrom(<<<<"Foo">>>>, Rel(B)), ImportFrom(<<<<"Foo", "y">>>>, Rel(B))>> }

BImports ==
  { <<>>,
    <<ImportFrom(<<Wildcard>>, Rel(A))>>,
    <<ImportFrom(<<<<"Foo">>>>, Rel(C))>>,
    <<ImportFrom(<<Wildcard>>, Rel(A)), ImportFrom(<<<<"Foo">>>>, Rel(C))>>,
    <<Malformed>> }

CImports ==
  { <<>>,
    <<ImportFrom(<<Wildcard>>, Rel(A))>>,
    <<ImportFrom(<<<<"Foo">>>>, Rel(C)), ImportFrom(<<Wildcard>>, Rel(A))>> }

EntryDefinitions ==
  { <<ObjectType("Query", <<"foo">>)>>,
    <<SchemaBlock, ObjectType("Query", <<"foo">>), ObjectType("Foo", <<"z", "x">>),
      ObjectType("Bar", <<"a">>)>> }

BDefinitions ==
  { <<ObjectType("Foo", <<"x", "y">>)>>,
    <<SchemaBlock, ObjectType("Query", <<"b">>), ObjectType("Foo", <<"y", "x">>),
      ScalarType("Bar"), ObjectType("constructor", <<"x">>)>> }

CDefinitions ==
  { <<ObjectType("Foo", <<"x", "y">>)>>,
    <<ObjectType("Foo", <<"y", "z", "x'">>)>> }

Comments(rawSDL) == Len(SelectSeq(rawSDL, IsImportComment))

\* fs.realpath and resolve-from over the from strings of a run: Missing
\* does not exist, the directory of Locked cannot be searched, and every
\* other file exists; Installed is no file of the directory.  resolve-from
\* does not search node_modules for a from string that begins with "./",
\* so it finds the bare from string Installed only.
Env ==
  [hasFs |-> TRUE,
   realpath |-> [r \in FromStrings |->
                   IF r \in { Rel(Missing), Installed } THEN [code |-> "ENOENT", data |-> EmptyPath]
                   ELSE IF r = Rel(Locked) THEN [code |-> "EACCES", data |-> EmptyPath]
                   ELSE [code |-> "OK", data |-> Tail(r)]],
   modules |-> [r \in FromStrings |-> IF r = Installed THEN InstalledModule ELSE NotFound]]

\* The files an import comment of rawSDL names.
Targets(rawSDL) ==
  { p \in Paths : \E l \in Range(SelectSeq(rawSDL, IsImportComment)) : l.from = Rel(p) }

\* The files the traversal can come to from the entry file A.
Reachable(ai, bi, ci) ==
  LET Step(S) == S \cup (IF B \in S THEN Targets(bi) ELSE {})
                   \cup (IF C \in S THEN Targets(ci) ELSE {})
  IN  Step(Step(Targets(ai)))

\* The contents of the three files: a file no import leads to is left out
\* of the variation, and the definitions vary together.  Fields are sorted
\* only where some field list is out of order.
Plain(c) ==
  /\ c.ad = <<ObjectType("Query", <<"foo">>)>>
  /\ c.bd = <<ObjectType("Foo", <<"x", "y">>)>>
  /\ c.cd = <<ObjectType("Foo", <<"x", "y">>)>>

Rich(c) ==
  /\ c.ad # <<ObjectType("Query", <<"foo">>)>>
  /\ c.bd # <<ObjectType("Foo", <<"x", "y">>)>>
  /\ c.cd # <<ObjectType("Foo", <<"x", "y">>)>>

Contents ==
  { c \in [ad : EntryDefinitions, ai : EntryImports,
           bd : BDefinitions, bi : BImports,
           cd : CDefinitions, ci : CImports] :
      /\ Comments(c.ai) + Comments(c.bi) + Comments(c.ci) <= MaxEdges
      /\ B \notin Reachable(c.ai, c.bi, c.ci) => c.bi = <<>>
      /\ C \notin Reachable(c.ai, c.bi, c.ci) => c.ci = <<>>
      /\ Plain(c) \/ Rich(c) }

World(c, sort) ==
  [files |-> [p \in { A, B, C } |->
                IF p = A THEN Source(A, c.ad, c.ai)
                ELSE IF p = B THEN Source(B, c.bd, c.bi) ELSE Source(C, c.cd, c.ci)],
   env |-> Env,
   sort |-> sort]

Worlds ==
  { World(x[1], x[2]) : x \in { y \in Contents \X BOOLEAN : y[2] => Rich(y[1]) } }

\* loadSingleFile of ../load-typedefs: reads and parses one file anew; it
\* fails for a file that does not parse.
loadSingleFile(path, w) ==
  IF path \in DOMAIN w.files THEN Success(w.files[path]) ELSE Failure

(***************************************************************************)
(* State of a resolution pass.                                             *)
(*                                                                         *)
(* frames: the calls of collectDefinitions, in call order.  A frame is     *)
(*   [location, imports, doc, parent, state]: doc is the position of its   *)
(*   document in allDefinitions, parent the task that made the call (0 for *)
(*   the call of processImportSyntax), state the state of its promise.     *)
(* tasks: the async callbacks of rawModules.map (lines 210-221), in        *)
(*   creation order.  A task is [frame, m, pc, path, child]:               *)
(*     "resolving"  awaiting resolveModuleFilePath (line 212)              *)
(*     "loading"    awaiting loadSingleFile (line 218)                     *)
(*     "visiting"   awaiting the recursive collectDefinitions (line 219)   *)
(*     "fulfilled" / "rejected"  its promise is settled                    *)
(***************************************************************************)
VARIABLES world, pc, processedFiles, allDefinitions, typeDefinitions,
          frames, tasks, firstSet, mergedFirstTypes, pass, previousOrder

vars == <<world, pc, processedFiles, allDefinitions, typeDefinitions,
          frames, tasks, firstSet, mergedFirstTypes, pass, previousOrder>>

MaxPasses == 2

\* options.processedFiles.get(moduleFilePath): <<>> stands for undefined.
Get(files, path) == IF path \in DOMAIN files THEN files[path] ELSE <<>>

\* A find by reference (===) instead of isEqual: records parsed from two
\* import comments are never the same object.
isProcessedByReference(processedFile, m) == FALSE

\* Line 215: the import was already issued against this file.
isProcessed(processedFile, m) == Includes(processedFile, m)

\* An already-processed import that waits for the visit in flight instead
\* of being skipped: in an import cycle that visit waits for this callback.
AfterLookupJoining(found) == IF found THEN "joined" ELSE "loading"

\* Lines 215-220: where the callback stands after the lookup.  With the
\* import already processed the body of the if is skipped and the callback
\* returns.
AfterLookup(found) == IF found THEN "fulfilled" ELSE "loading"

\* Line 217.
markProcessed(files, path, m) ==
  [p \in DOMAIN files \cup {path} |->
     IF p = path THEN Append(Get(files, path), m) ELSE files[p]]

(***************************************************************************)
(* Lines 197-210: the synchronous part of one collectDefinitions call,     *)
(* from the push to allDefinitions to the start of the callbacks of its    *)
(* import records.  st is [allDefinitions, typeDefinitions, frames,        *)
(* tasks].  A throw of parseSDL rejects the call after both pushes.        *)
(***************************************************************************)
collectDefinitions(st, imports, source, parent, sort) ==
  LET pushed == Append(st.allDefinitions, source.definitions)
      n == Len(pushed)
      current == filterImportedDefinitions(imports, source.definitions, pushed, sort)
      rawModules == parseSDL(source.rawSDL)
      frame == [location |-> source.location, imports |-> imports, doc |-> n,
                parent |-> parent,
                state |-> IF rawModules.ok THEN "pending" ELSE "rejected"]
      k == Len(st.frames) + 1
      started == IF rawModules.ok
                 THEN [i \in 1..Len(rawModules.value) |->
                         [frame |-> k, m |-> rawModules.value[i], pc |-> "resolving",
                          path |-> EmptyPath, child |-> 0]]
                 ELSE <<>>
  IN  [allDefinitions |-> [pushed EXCEPT ![n] = current.definitions],
       typeDefinitions |-> Append(st.typeDefinitions,
                             [i \in 1..Len(current.result) |-> <<n, current.result[i]>>]),
       frames |-> Append(st.frames, frame),
       tasks |-> st.tasks \o started]

(***************************************************************************)
(* Promise settlement.  Promise.all (line 209) rejects as soon as one of   *)
(* its promises is rejected and is fulfilled when all are; a task awaiting *)
(* the call it made (line 219) settles as that call does.  The reactions   *)
(* run as microtasks, before the next I/O completion is handled.           *)
(***************************************************************************)
FrameTasks(ts, k) == { t \in 1..Len(ts) : ts[t].frame = k }

\* Promise.allSettled in place of Promise.all: a rejection is not passed on.
SettleFrameAllSettled(fs, ts, k) ==
  IF fs[k].state # "pending" THEN fs[k]
  ELSE IF \A t \in FrameTasks(ts, k) : ts[t].pc \in { "fulfilled", "rejected" }
       THEN [fs[k] EXCEPT !.state = "fulfilled"]
       ELSE fs[k]

\* The callbacks started without being awaited (forEach in place of
\* Promise.all over map): the call returns at once.
SettleFrameWithoutAwait(fs, ts, k) ==
  IF fs[k].state # "pending" THEN fs[k] ELSE [fs[k] EXCEPT !.state = "fulfilled"]

SettleFrame(fs, ts, k) ==
  IF fs[k].state # "pending" THEN fs[k]
  ELSE IF \E t \in FrameTasks(ts, k) : ts[t].pc = "rejected"
       THEN [fs[k] EXCEPT !.state = "rejected"]
       ELSE IF \A t \in FrameTasks(ts, k) : ts[t].pc = "fulfilled"
            THEN [fs[k] EXCEPT !.state = "fulfilled"]
            ELSE fs[k]

SettleTask(fs, ts, t) ==
  IF ts[t].pc = "visiting" /\ fs[ts[t].child].state # "pending"
  THEN [ts[t] EXCEPT !.pc = fs[ts[t].child].state]
  ELSE ts[t]

RECURSIVE Settle(_)
Settle(st) ==
  LET fs == [k \in 1..Len(st.frames) |-> SettleFrame(st.frames, st.tasks, k)]
      ts == [t \in 1..Len(st.tasks) |-> SettleTask(fs, st.tasks, t)]
      next == [st EXCEPT !.frames = fs, !.tasks = ts]
  IN  IF next = st THEN st ELSE Settle(next)

Current == [allDefinitions |-> allDefinitions, typeDefinitions |-> typeDefinitions,
            frames |-> frames, tasks |-> tasks]

\* The await of line 86 throws when the entry call is rejected.
Awaited(fs, p) == IF p = "collecting" /\ fs[1].state = "rejected" THEN "failed" ELSE p

Install(st) ==
  LET settled == Settle(st)
  IN  /\ allDefinitions' = settled.allDefinitions
      /\ typeDefinitions' = settled.typeDefinitions
      /\ frames' = settled.frames
      /\ tasks' = settled.tasks
      /\ pc' = Awaited(settled.frames, IF pc = "idle" THEN "collecting" ELSE pc)

Init ==
  /\ world \in Worlds
  /\ pc = "idle"
  /\ processedFiles = << >>
  /\ allDefinitions = <<>>
  /\ typeDefinitions = <<>>
  /\ frames = <<>>
  /\ tasks = <<>>
  /\ firstSet = <<>>
  /\ mergedFirstTypes = <<>>
  /\ pass = 1
  /\ previousOrder = <<>>

\* Lines 82-86: processImportSyntax up to its await.
Start ==
  /\ pc = "idle"
  /\ Install(collectDefinitions(Current, <<Wildcard>>, world.files[A], 0, world.sort))
  /\ UNCHANGED <<world, processedFiles, firstSet, mergedFirstTypes, pass, previousOrder>>

\* Lines 212-218: resolveModuleFilePath has settled for task t; the lookup
\* in processedFiles, the recording and the call of loadSingleFile follow
\* without an await in between.
Resolved(t) ==
  /\ tasks[t].pc = "resolving"
  /\ LET m == tasks[t].m
         r == resolveModuleFilePath(frames[tasks[t].frame].location, m.from, world.env)
     IN  IF ~r.ok
         THEN /\ Install([Current EXCEPT !.tasks[t].pc = "rejected"])
              /\ UNCHANGED processedFiles
         ELSE IF isProcessed(Get(processedFiles, r.value), m)
              THEN /\ Install([Current EXCEPT !.tasks[t].pc = AfterLookup(TRUE)])
                   /\ UNCHANGED processedFiles
              ELSE /\ processedFiles' = markProcessed(processedFiles, r.value, m)
                   /\ Install([Current EXCEPT !.tasks[t].pc = AfterLookup(FALSE),
                                              !.tasks[t].path = r.value])
  /\ UNCHANGED <<world, firstSet, mergedFirstTypes, pass, previousOrder>>

\* Lines 218-219: loadSingleFile has settled for task t; on success the
\* synchronous part of the recursive call runs.
Loaded(t) ==
  /\ tasks[t].pc = "loading"
  /\ LET result == loadSingleFile(tasks[t].path, world)
     IN  IF ~result.ok
         THEN Install([Current EXCEPT !.tasks[t].pc = "rejected"])
         ELSE Install(collectDefinitions(
                        [Current EXCEPT !.tasks[t].pc = "visiting",
                                        !.tasks[t].child = Len(frames) + 1],
                        tasks[t].m.imports, result.value, t, world.sort))
  /\ UNCHANGED <<world, processedFiles, firstSet, mergedFirstTypes, pass, previousOrder>>

\* Lines 92-117: the entry call has returned; merge and hand over to
\* completeDefinitionPool, whose second argument is firstSet.
Merge ==
  /\ pc = "collecting"
  /\ frames[1].state = "fulfilled"
  /\ LET st == MergeWalk(MergeStart(allDefinitions), FirstSet(typeDefinitions), world.sort)
     IN  /\ allDefinitions' = st.defs
         /\ mergedFirstTypes' = st.mergedFirstTypes
         /\ firstSet' = FirstSet(typeDefinitions)
  /\ pc' = "done"
  /\ UNCHANGED <<world, processedFiles, typeDefinitions, frames, tasks, pass, previousOrder>>

Next ==
  \/ Start
  \/ \E t \in 1..Len(tasks) : Resolved(t)
  \/ \E t \in 1..Len(tasks) : Loaded(t)
  \/ Merge

Spec == Init /\ [][Next]_vars

\* A caller starts another pass over the same files with a fresh
\* processedFiles map and fresh accumulators, once the pass before it has
\* ended and none of its callbacks is left running.
Order == [k \in 1..Len(frames) |-> <<frames[k].location, frames[k].imports>>]

Quiet == \A t \in 1..Len(tasks) : tasks[t].pc \in { "fulfilled", "rejected" }

NewPass ==
  /\ pc \in { "done", "failed" }
  /\ Quiet
  /\ pass < MaxPasses
  /\ pass' = pass + 1
  /\ previousOrder' = IF pc = "done" THEN Order ELSE <<>>
  /\ pc' = "idle"
  /\ processedFiles' = << >>
  /\ allDefinitions' = <<>>
  /\ typeDefinitions' = <<>>
  /\ frames' = <<>>
  /\ tasks' = <<>>
  /\ firstSet' = <<>>
  /\ mergedFirstTypes' = <<>>
  /\ UNCHANGED world

\* Repeated passes over files without field sorting.
RepeatInit == Init /\ ~world.sort /\ world.files[A].definitions = <<ObjectType("Query", <<"foo">>)>>

RepeatSpec == RepeatInit /\ [][Next \/ NewPass]_vars

\* A caller calls processImportSyntax again with the options object and the
\* allDefinitions array of the call before: options.processedFiles and
\* allDefinitions are the caller's and keep what the first call put into
\* them; typeDefinitions is made anew by the call (line 83), and the entry
\* document is loaded anew.
CallAgain ==
  /\ pc \in { "done", "failed" }
  /\ Quiet
  /\ pass < MaxPasses
  /\ pass' = pass + 1
  /\ previousOrder' = IF pc = "done" THEN Order ELSE <<>>
  /\ pc' = "idle"
  /\ typeDefinitions' = <<>>
  /\ frames' = <<>>
  /\ tasks' = <<>>
  /\ firstSet' = <<>>
  /\ mergedFirstTypes' = <<>>
  /\ UNCHANGED <<world, processedFiles, allDefinitions>>

ReuseSpec == RepeatInit /\ [][Next \/ CallAgain]_vars

(***************************************************************************)
(* Properties.                                                             *)
(***************************************************************************)
Ended == pc \in { "done", "failed" }

AllReturned == pc # "idle" /\ \A k \in 1..Len(frames) : frames[k].state # "pending"

\* The callbacks that went on to call loadSingleFile (line 218).
LoaderCalls == { t \in 1..Len(tasks) : tasks[t].path # EmptyPath }

\* The callbacks that found their import already processed (line 215).
Skipped == { t \in 1..Len(tasks) : tasks[t].pc = "fulfilled" /\ tasks[t].child = 0 }

\* Some callback of the pass can run: an await has settled, or the pass has
\* not begun or its merge is due (the guards of Start, Resolved, Loaded and
\* Merge).
CanStep ==
  \/ pc = "idle"
  \/ \E t \in 1..Len(tasks) : tasks[t].pc \in { "resolving", "loading" }
  \/ pc = "collecting" /\ frames[1].state = "fulfilled"

\* The import edges of the files: a resolved target path with the import
\* record of one import comment.
Edges ==
  UNION { { <<resolveModuleFilePath(p, l.from, world.env), parseImportLine(l)>> :
              l \in { x \in Range(world.files[p].rawSDL) : IsImportComment(x) } } :
          p \in DOMAIN world.files }

\* The steps the callbacks of the pass have taken so far.
TaskSteps(t) ==
  IF tasks[t].pc = "resolving" THEN 0
  ELSE IF tasks[t].pc = "loading" \/ tasks[t].path = EmptyPath THEN 1 ELSE 2

RECURSIVE Sum(_, _)
Sum(f, n) == IF n = 0 THEN 0 ELSE f[n] + Sum(f, n - 1)

StepsTaken ==
  (IF pc = "idle" THEN 0 ELSE 1) + (IF pc = "done" THEN 1 ELSE 0)
    + Sum([t \in 1..Len(tasks) |-> TaskSteps(t)], Len(tasks))

\* C1: every resolution pass terminates, import cycles and self-imports
\* included.  Under every scheduling of the callbacks: a pass that has not
\* ended with every collectDefinitions call returned has a callback that
\* can run, there is at most one visit for the entry and one for each
\* import edge of the files, and every step is one more step of the pass.
C1_Termination ==
  /\ [](CanStep \/ (Ended /\ AllReturned))
  /\ [](Len(frames) <= 1 + Cardinality(Edges))
  /\ [][StepsTaken' = StepsTaken + 1]_vars

\* A pass over an import cycle has ended: the entry file was visited again
\* through an import, and an import of the cycle was skipped.
C1_Witness ==
  /\ pc = "done"
  /\ AllReturned
  /\ \E k \in 2..Len(frames) : frames[k].location = A
  /\ Skipped # {}

\* C2: within a pass the loader is called, and collectDefinitions entered,
\* at most once for a resolved path and an import record, whatever the
\* interleaving of the callbacks.
C2_AtMostOncePerEdge ==
  /\ \A t1, t2 \in LoaderCalls :
       (tasks[t1].path = tasks[t2].path /\ tasks[t1].m = tasks[t2].m) => t1 = t2
  /\ \A k1, k2 \in 2..Len(frames) :
       ( /\ tasks[frames[k1].parent].path = tasks[frames[k2].parent].path
         /\ tasks[frames[k1].parent].m = tasks[frames[k2].parent].m ) => k1 = k2

\* Two sibling callbacks carry the same import line: one is loading the
\* file, the other found the import processed and was skipped.
C2_Witness ==
  \E t1, t2 \in 1..Len(tasks) :
    /\ t1 # t2
    /\ tasks[t1].frame = tasks[t2].frame
    /\ tasks[t1].m = tasks[t2].m
    /\ tasks[t1].pc = "loading"
    /\ t2 \in Skipped

NamesOf(defs, refs) == { Node(defs, r).name : r \in { x \in Range(refs) : HasName(Node(defs, x)) } }

Carriers(defs, refs, n) ==
  { i \in 1..Len(refs) : HasName(Node(defs, refs[i])) /\ Node(defs, refs[i]).name = n }

\* C3: the set handed to the completion step as the merged set carries
\* each definition name of the projections exactly once.
C3_HandedSetHasEachNameOnce ==
  pc = "done" =>
    \A n \in NamesOf(allDefinitions, flatten(typeDefinitions)) :
      Cardinality(Carriers(allDefinitions, firstSet, n)) = 1

\* C4: the order in which documents are appended is the same for every
\* interleaving: a second pass over the same files appends the documents
\* in the order of the pass before it.
C4_SameOrderInEveryPass ==
  (pass > 1 /\ pc = "done" /\ previousOrder # <<>>) => Order = previousOrder

Failed ==
  \/ \E t \in 1..Len(tasks) : tasks[t].pc = "rejected"
  \/ \E k \in 1..Len(frames) : frames[k].state = "rejected"

\* C5: a failure of the loader, of the path resolution or of the parse of
\* an import line anywhere in the traversal fails the whole pass: the
\* merge does not run and nothing is handed to the completion step.
C5_FailureAbortsPass ==
  Failed => /\ pc = "failed"
            /\ firstSet = <<>>
            /\ mergedFirstTypes = <<>>

\* The loader failed for one import after a sibling import was visited.
C5_Witness ==
  /\ pc = "failed"
  /\ \E t \in 1..Len(tasks) : tasks[t].pc = "rejected" /\ tasks[t].path = Broken
  /\ Len(allDefinitions) > 1

\* The definitions of the document of frame k as the loader returned them.
Loaded0(k) == world.files[frames[k].location].definitions

\* The definitions of the document of frame k as the projection left them,
\* before any merge.
Projected(k) ==
  filterImportedDefinitions(frames[k].imports, Loaded0(k),
                            SubSeq(allDefinitions, 1, frames[k].doc), world.sort).definitions

FrameOfDoc(n) == CHOOSE k \in 1..Len(frames) : frames[k].doc = n

BeforeMerge(ref) == Projected(FrameOfDoc(ref[1]))[ref[2]]

Min(S) == CHOOSE x \in S : \A y \in S : x <= y

NoDuplicates(s) == \A i, j \in 1..Len(s) : s[i] = s[j] => i = j

\* The documents whose projection holds a definition named n.
DocsCarrying(n) ==
  { k \in 1..Len(typeDefinitions) : Carriers(allDefinitions, typeDefinitions[k], n) # {} }

\* C6: the merge keeps the first occurrence of a name in the concatenation;
\* typeDefinitions[1] is the projection of the entry document, so the
\* canonical copy of a name is the entry document's when it defines the
\* name, and otherwise that of the earliest visited document carrying it.
C6_CanonicalCopy ==
  /\ pc # "idle" =>
       /\ frames[1].location = A
       /\ typeDefinitions[1] = [j \in 1..Len(allDefinitions[1]) |-> <<1, j>>]
  /\ pc = "done" =>
       \A i \in 1..Len(mergedFirstTypes) :
         LET r == mergedFirstTypes[i]
             n == Node(allDefinitions, r).name
         IN  /\ r = firstSet[Min(Carriers(allDefinitions, firstSet, n))]
             /\ r[1] = Min(DocsCarrying(n))
             /\ (\E j \in 1..Len(allDefinitions[1]) :
                   HasName(allDefinitions[1][j]) /\ allDefinitions[1][j].name = n)
                  => r[1] = 1

\* The entry document and an imported document both define Foo, and both
\* definitions went into the merge.
C6_Witness ==
  /\ pc = "done"
  /\ \E i \in 1..Len(mergedFirstTypes) :
       /\ Node(allDefinitions, mergedFirstTypes[i]).name = "Foo"
       /\ mergedFirstTypes[i][1] = 1
       /\ Cardinality(DocsCarrying("Foo")) > 1

\* C7: a root query type with a field, defined by a file the entry file
\* imports by wildcard, is in the projection of that file.
C7_RootTypeKept ==
  \A k \in 2..Len(frames) :
    (frames[k].imports = <<Wildcard>> /\ tasks[frames[k].parent].frame = 1) =>
      \A j \in 1..Len(allDefinitions[frames[k].doc]) :
        LET d == allDefinitions[frames[k].doc][j]
        IN  (d.kind = "ObjectTypeDefinition" /\ d.name = "Query" /\ d.fields # <<>>)
              => Includes(typeDefinitions[k], <<frames[k].doc, j>>)

\* The field names the selectors request for type n.
Requested(imports, n) == { i[2] : i \in { x \in Range(imports) : Len(x) = 2 /\ x[1] = n } }

IsSorted(s) == \A i, j \in 1..Len(s) : i < j => Rank(s[i]) <= Rank(s[j])

DefinedOnce(defs, j) ==
  \A h \in 1..Len(defs) : (HasName(defs[h]) /\ defs[h].name = defs[j].name) => h = j

\* C8: for a selector list without wildcard and a type the document
\* defines once, with field selectors: the projection holds the type once;
\* with the selector Type.* its field list is unchanged, otherwise it holds
\* exactly the fields of the type that are requested, in their original
\* order when sorting is off and sorted when it is on.
C8_FieldProjection ==
  pc \in { "collecting", "failed" } =>
    \A k \in 1..Len(frames) : ~Includes(frames[k].imports, Wildcard) =>
      \A j \in 1..Len(Loaded0(k)) :
        LET d0 == Loaded0(k)[j]
            d == allDefinitions[frames[k].doc][j]
            req == Requested(frames[k].imports, d0.name)
        IN  (HasFields(d0) /\ req # {} /\ DefinedOnce(Loaded0(k), j)) =>
              /\ Carriers(allDefinitions, typeDefinitions[k], d0.name) # {}
              /\ \A c \in Carriers(allDefinitions, typeDefinitions[k], d0.name) :
                   typeDefinitions[k][c] = <<frames[k].doc, j>>
              /\ Cardinality(Carriers(allDefinitions, typeDefinitions[k], d0.name)) = 1
              /\ IF "*" \in req THEN d.fields = d0.fields
                 ELSE /\ Range(d.fields) = Range(d0.fields) \cap req
                      /\ NoDuplicates(d.fields)
                      /\ ~world.sort => d.fields = SelectSeq(d0.fields, LAMBDA f : f \in req)
                      /\ world.sort => IsSorted(d.fields)

\* Foo.x was projected out of a document defining Foo with the fields x and
\* y: the projection is Foo with the one field x.
C8_Witness ==
  /\ pc = "collecting"
  /\ \E k \in 2..Len(frames) :
       /\ frames[k].imports = <<<<"Foo", "x">>>>
       /\ Range(Loaded0(k)[1].fields) = { "x", "y" }
       /\ typeDefinitions[k] = << <<frames[k].doc, 1>> >>
       /\ allDefinitions[frames[k].doc][1] = ObjectType("Foo", <<"x">>)

BareNames(imports) == \A i \in 1..Len(imports) : Len(imports[i]) = 1 /\ imports[i] # Wildcard

\* The files of the end-to-end scenario: a imports Foo from b and defines
\* Query; b defines Foo with the fields x and y.
Scenario ==
  /\ world.files[A] = Source(A, <<ObjectType("Query", <<"foo">>)>>,
                             <<Text, ImportFrom(<<<<"Foo">>>>, Rel(B))>>)
  /\ world.files[B] = Source(B, <<ObjectType("Foo", <<"x", "y">>)>>, <<>>)

\* C9: every definition of the entry document is projected, with all of
\* its fields; a type imported by its bare name is projected with all of
\* its fields; in the scenario the pass hands over exactly Query with its
\* field foo and Foo with the fields x and y.
C9_EndToEnd ==
  /\ pc # "idle" =>
       /\ typeDefinitions[1] = [j \in 1..Len(Loaded0(1)) |-> <<1, j>>]
       /\ \A j \in 1..Len(Loaded0(1)) :
            /\ Range(Loaded0(1)[j].fields) \subseteq Range(allDefinitions[1][j].fields)
            /\ pc # "done" => allDefinitions[1][j] = Loaded0(1)[j]
  /\ \A k \in 2..Len(frames) : BareNames(frames[k].imports) =>
       \A j \in 1..Len(Loaded0(k)) :
         (HasName(Loaded0(k)[j]) /\ Includes(frames[k].imports, <<Loaded0(k)[j].name>>)) =>
           /\ Includes(typeDefinitions[k], <<frames[k].doc, j>>)
           /\ Range(Loaded0(k)[j].fields) \subseteq Range(allDefinitions[frames[k].doc][j].fields)
           /\ pc # "done" => allDefinitions[frames[k].doc][j] = Loaded0(k)[j]
  /\ (Scenario /\ pc = "done") =>
       /\ { Node(allDefinitions, r) : r \in Range(firstSet) }
            = { ObjectType("Query", <<"foo">>), ObjectType("Foo", <<"x", "y">>) }
       /\ { Node(allDefinitions, r) : r \in Range(mergedFirstTypes) }
            = { ObjectType("Query", <<"foo">>), ObjectType("Foo", <<"x", "y">>) }

\* The pass over the files of the scenario is done.
C9_Witness ==
  /\ Scenario
  /\ pc = "done"
  /\ Len(frames) = 2
  /\ Node(allDefinitions, <<2, 1>>).name = "Foo"

\* The occurrences of name n in the merge input, as nodes.
Copies(n) == { firstSet[c] : c \in Carriers(allDefinitions, firstSet, n) }

Identical(n) ==
  \A r1, r2 \in Copies(n) :
    /\ HasFields(BeforeMerge(r1))
    /\ NoDuplicates(BeforeMerge(r1).fields)
    /\ BeforeMerge(r1).kind = BeforeMerge(r2).kind
    /\ Range(BeforeMerge(r1).fields) = Range(BeforeMerge(r2).fields)

\* C10: when the definitions of a name in the merge input are identical
\* copies of an object type, the merge yields one definition of the name,
\* with exactly the fields of the copies and none of them twice, whichever
\* copy came first.
C10_MergeIdempotent ==
  pc = "done" =>
    \A i \in 1..Len(mergedFirstTypes) :
      LET r == mergedFirstTypes[i]
          n == Node(allDefinitions, r).name
      IN  Identical(n) =>
            /\ Range(Node(allDefinitions, r).fields) = Range(BeforeMerge(r).fields)
            /\ NoDuplicates(Node(allDefinitions, r).fields)
            /\ \A h \in 1..Len(mergedFirstTypes) :
                 Node(allDefinitions, mergedFirstTypes[h]).name = n => h = i

\* Two files define the same Foo and both copies were merged, the copy of
\* the file imported second having come first.
C10_Witness ==
  /\ pc = "done"
  /\ Identical("Foo")
  /\ Cardinality({ r[1] : r \in Copies("Foo") }) = 2
  /\ \E i \in 1..Len(mergedFirstTypes) :
       /\ Node(allDefinitions, mergedFirstTypes[i]).name = "Foo"
       /\ frames[FrameOfDoc(mergedFirstTypes[i][1])].location = C

\* The positions of the definitions of document doc, as references.
AllOf(doc) == [j \in 1..Len(allDefinitions[doc]) |-> <<doc, j>>]

\* The names carried by the documents appended before document doc, the
\* operation root names not counting.
SeenEarlier(doc) ==
  { d.name : d \in { e \in Range(flatten(SubSeq(allDefinitions, 1, doc - 1))) : HasName(e) } }
    \ Range(rootFields)

\* C11: for the selector list [*] the entry document is projected to all
\* of its definitions, and a document visited later to exactly its
\* definitions of object-type kind whose name a document appended earlier
\* carries, Query, Mutation and Subscription not counting as seen.
C11_WildcardProjection ==
  \A k \in 1..Len(frames) : frames[k].imports = <<Wildcard>> =>
    IF frames[k].doc = 1
    THEN typeDefinitions[k] = AllOf(1)
    ELSE typeDefinitions[k] =
           SelectSeq(AllOf(frames[k].doc),
                     LAMBDA r : /\ Node(allDefinitions, r).kind = "ObjectTypeDefinition"
                                /\ Node(allDefinitions, r).name \in SeenEarlier(frames[k].doc))

\* The type names a selector list asks for.
ImportedTypes(imports) == { imports[i][1] : i \in 1..Len(imports) }

\* C12: for a selector list that is not exactly [*], a list holding the
\* wildcard token next to type names included, the projection holds only
\* definitions named by the type part of one of the selectors.
C12_OnlySelectedNames ==
  \A k \in 1..Len(frames) : frames[k].imports # <<Wildcard>> =>
    \A i \in 1..Len(typeDefinitions[k]) :
      /\ HasName(Node(allDefinitions, typeDefinitions[k][i]))
      /\ Node(allDefinitions, typeDefinitions[k][i]).name \in ImportedTypes(frames[k].imports)

\* The positions of the merge input that hold a field-bearing definition
\* named n, and the fields of the definition at position c as the
\* projection left them.
FieldCopies(n) ==
  { c \in Carriers(allDefinitions, firstSet, n) : HasFields(Node(allDefinitions, firstSet[c])) }

FieldsAt(c) == BeforeMerge(firstSet[c]).fields

\* The first position of the merge input whose definition of n has a field
\* named f, and the place of that field in its list.
FirstCopyWith(n, f) ==
  Min({ c \in FieldCopies(n) : \E i \in 1..Len(FieldsAt(c)) : FieldName(FieldsAt(c)[i]) = f })

IndexIn(s, f) == Min({ i \in 1..Len(s) : FieldName(s[i]) = f })

\* C13: after the merge walk the field list of the canonical definition of
\* a name is the union of the field lists of the field-bearing definitions
\* of that name in the merge input: each of its elements is a field of one
\* of them, every field name of theirs occurs in it exactly once, with the
\* field that was seen first, and with sorting off the canonical
\* definition's own fields come first and the new fields follow in the
\* order in which they were first seen.
C13_MergedFieldsAreUnion ==
  pc = "done" =>
    \A i \in 1..Len(mergedFirstTypes) :
      LET r == mergedFirstTypes[i]
          n == Node(allDefinitions, r).name
          fields == Node(allDefinitions, r).fields
          own == BeforeMerge(r).fields
          all == UNION { Range(FieldsAt(c)) : c \in FieldCopies(n) }
      IN  HasFields(Node(allDefinitions, r)) =>
            /\ Range(fields) \subseteq all
            /\ { FieldName(f) : f \in Range(fields) } = { FieldName(f) : f \in all }
            /\ \A a, b \in 1..Len(fields) : FieldName(fields[a]) = FieldName(fields[b]) => a = b
            /\ \A a \in 1..Len(fields) :
                 LET c == FirstCopyWith(n, FieldName(fields[a]))
                 IN  fields[a] = FieldsAt(c)[IndexIn(FieldsAt(c), FieldName(fields[a]))]
            /\ ~world.sort =>
                 /\ SubSeq(fields, 1, Len(own)) = own
                 /\ \A a, b \in (Len(own) + 1)..Len(fields) : a < b =>
                      LET ca == FirstCopyWith(n, FieldName(fields[a]))
                          cb == FirstCopyWith(n, FieldName(fields[b]))
                      IN  \/ ca < cb
                          \/ /\ ca = cb
                             /\ IndexIn(FieldsAt(ca), FieldName(fields[a]))
                                  < IndexIn(FieldsAt(ca), FieldName(fields[b]))

\* The definitions of name n in the merge input other than the node r.
OtherCopies(n, r) == Copies(n) \ { r }

\* C14: the merge unions field lists only when the canonical definition
\* and the later definition of the name are both field-bearing: a
\* canonical definition whose other occurrences have no field list keeps
\* its field list, which gains no element.
C14_FieldlessCopyAddsNothing ==
  pc = "done" =>
    \A i \in 1..Len(mergedFirstTypes) :
      LET r == mergedFirstTypes[i]
          n == Node(allDefinitions, r).name
      IN  ( /\ HasFields(Node(allDefinitions, r))
            /\ OtherCopies(n, r) # {}
            /\ \A o \in OtherCopies(n, r) : ~HasFields(Node(allDefinitions, o)) ) =>
            /\ Len(Node(allDefinitions, r).fields) = Len(BeforeMerge(r).fields)
            /\ Range(Node(allDefinitions, r).fields) = Range(BeforeMerge(r).fields)

\* The visit of frame k and every visit it triggered, directly or through
\* other visits, has returned successfully: each callback of the frame is
\* fulfilled, and so is the visit of each callback that made one.
RECURSIVE Completed(_)
Completed(k) ==
  /\ frames[k].state = "fulfilled"
  /\ \A t \in FrameTasks(tasks, k) :
       /\ tasks[t].pc = "fulfilled"
       /\ tasks[t].child # 0 =>
            /\ Len(allDefinitions) >= frames[tasks[t].child].doc
            /\ Len(typeDefinitions) >= frames[tasks[t].child].doc
            /\ Completed(tasks[t].child)

\* The import edges that were loaded and visited.
VisitedEdges ==
  { <<tasks[t].path, tasks[t].m>> : t \in { u \in LoaderCalls : tasks[u].child # 0 } }

\* The import edges of the document of frame k.
EdgesOf(k) ==
  LET rawModules == parseSDL(world.files[frames[k].location].rawSDL).value
  IN  { <<resolveModuleFilePath(frames[k].location, rawModules[i].from, world.env).value,
          rawModules[i]>> : i \in 1..Len(rawModules) }

MergeStarts == pc = "done" \/ (pc = "collecting" /\ frames[1].state = "fulfilled")

\* C15: when a visit has returned successfully, every visit it triggered
\* has completed its appends and returned; when the merge starts, every
\* import record reachable from the entry document has been loaded and
\* visited and no callback is left, and nothing is appended to
\* allDefinitions or typeDefinitions once the merge has run.
C15_FanIn ==
  /\ [](\A k \in 1..Len(frames) : frames[k].state = "fulfilled" => Completed(k))
  /\ [](MergeStarts =>
          /\ \A k \in 1..Len(frames) : Completed(k) /\ EdgesOf(k) \subseteq VisitedEdges
          /\ Quiet)
  /\ [][pc = "done" =>
          /\ Len(allDefinitions') = Len(allDefinitions)
          /\ typeDefinitions' = typeDefinitions]_vars

\* The merge is due after a visit two imports away from the entry document
\* has returned.
C15_Witness ==
  /\ pc = "collecting"
  /\ frames[1].state = "fulfilled"
  /\ \E k \in 2..Len(frames) : tasks[frames[k].parent].frame # 1

\* C16: once the pass has reported a failure to its caller, no callback of
\* the pass calls the single-file loader, appends to allDefinitions or
\* typeDefinitions, or writes to processedFiles.
C16_NothingAfterFailure ==
  [][pc = "failed" =>
       /\ LoaderCalls' = LoaderCalls
       /\ allDefinitions' = allDefinitions
       /\ typeDefinitions' = typeDefinitions
       /\ processedFiles' = processedFiles]_vars

\* C17: a second call made with the options and the accumulator of a first
\* call runs as a call on its own does: it visits the documents the first
\* call visited, none of its imports being skipped for a record the first
\* call left, and its entry document is projected as the first document,
\* to all of its definitions.
C17_SecondCallRunsAlone ==
  (pass > 1 /\ pc = "done" /\ previousOrder # <<>>) =>
    /\ Range(Order) = Range(previousOrder)
    /\ typeDefinitions[1] = AllOf(frames[1].doc)

\* C18: for an importing file and a from string that both have a schema
\* file extension (and a filesystem at hand), the resolved path is the
\* canonical path of the target when it exists and the result of the module
\* resolution when it is reported as not found; the from string itself is
\* the resolved path only where the extension check fails, never after a
\* failed existence check.
C18_ResolutionPolicy ==
  \A t \in LoaderCalls :
    LET from == tasks[t].m.from
        checked == /\ world.env.hasFs
                   /\ isGraphQLFile(frames[tasks[t].frame].location)
                   /\ isGraphQLFile(from)
    IN  /\ checked =>
             \/ /\ world.env.realpath[from].code = "OK"
                /\ tasks[t].path = world.env.realpath[from].data
             \/ /\ world.env.realpath[from].code = "ENOENT"
                /\ tasks[t].path = world.env.modules[from]
        /\ tasks[t].path = from => ~checked

\* C19: definitions without a name pass through untouched: every unnamed
\* definition of a visited document is in the projection of the document,
\* whatever the selector list, and every unnamed definition of the merge
\* input is an entry of the merged result.
C19_UnnamedPassThrough ==
  /\ \A k \in 1..Len(frames) :
       \A j \in 1..Len(allDefinitions[frames[k].doc]) :
         ~HasName(allDefinitions[frames[k].doc][j])
           => Includes(typeDefinitions[k], <<frames[k].doc, j>>)
  /\ pc = "done" =>
       \A c \in 1..Len(firstSet) :
         ~HasName(Node(allDefinitions, firstSet[c])) => Includes(mergedFirstTypes, firstSet[c])

\* C20: the definitions of a loaded document, as allDefinitions holds them,
\* change only by the reduction of a field list to the fields that field
\* selectors request: no step of the pass changes a kind or a name or
\* brings a field list an element the loaded definition did not have, and
\* the field list of a definition that no field selector of the import
\* names stays as it was loaded.
C20_OnlyProjectorEdits ==
  \A k \in 1..Len(frames) :
    \A j \in 1..Len(Loaded0(k)) :
      LET d0 == Loaded0(k)[j]
          d == allDefinitions[frames[k].doc][j]
      IN  /\ d.kind = d0.kind
          /\ d.name = d0.name
          /\ Range(d.fields) \subseteq Range(d0.fields)
          /\ Requested(frames[k].imports, d0.name) = {} => d.fields = d0.fields

====
